---- MODULE Spec2Model ----
(***************************************************************************)
(* A model of postProcess/make_mp4.py: one run of main(), from the         *)
(* directory check to the verification of the encoded file.  File names    *)
(* are sequences of one-character strings, so that sorting, the suffix     *)
(* test and both regular expressions are computed as the code computes     *)
(* them.                                                                   *)
(***************************************************************************)
EXTENDS Integers, Sequences, FiniteSets, TLC

\* ------------------------------------------------------------------ bounds
\* Largest number of entries of the input directory.
MaxFiles == 5

\* ------------------------------------------------------------- characters
\* The characters that occur, in code-point order (str comparison order).
Alphabet ==
  << "%", "-", ".", "/",
     "0", "1", "2", "3", "4", "5", "6", "7", "8", "9",
     "A", "B", "C", "D", "E", "F", "G", "H", "I", "J", "K", "L", "M",
     "N", "O", "P", "Q", "R", "S", "T", "U", "V", "W", "X", "Y", "Z",
     "_",
     "a", "b", "c", "d", "e", "f", "g", "h", "i", "j", "k", "l", "m",
     "n", "o", "p", "q", "r", "s", "t", "u", "v", "w", "x", "y", "z" >>

\* ord(c), up to the gaps between the characters that occur.
OrdTable ==
  [c \in { Alphabet[i] : i \in 1..Len(Alphabet) } |->
     CHOOSE i \in 1..Len(Alphabet) : Alphabet[i] = c]

Ord(c) == OrdTable[c]

IsDigit(c) == Ord(c) >= Ord("0") /\ Ord(c) <= Ord("9")

DigitVal(c) == Ord(c) - Ord("0")

\* str.lower() / re.IGNORECASE folding of one character.
Lower(c) ==
  IF Ord(c) >= Ord("A") /\ Ord(c) <= Ord("Z")
    THEN Alphabet[Ord(c) - Ord("A") + Ord("a")]
    ELSE c

LowerStr(s) == [i \in 1..Len(s) |-> Lower(s[i])]

AllDigits(s) == \A i \in 1..Len(s) : IsDigit(s[i])

DotPng == << ".", "p", "n", "g" >>

\* ------------------------------------------------------------- file names
\* The names a directory entry can have.
NameUniverse ==
  { << "c","l","i","p","_","0","0","3",".","p","n","g" >>,
    << "c","l","i","p","_","0","0","4",".","p","n","g" >>,
    << "c","l","i","p","_","0","0","5",".","p","n","g" >>,
    << "c","l","i","p","_","0","0","7",".","p","n","g" >>,
    << "c","l","i","p","_","0","0","8",".","p","n","g" >>,
    << "v","2","0","0","1",".","p","n","g" >>,
    << "f","r","a","m","e","-","1",".","p","n","g" >>,
    << "f","r","a","m","e","-","1","0",".","p","n","g" >>,
    << "F","r","a","m","e","-","1",".","P","N","G" >>,
    << "C","o","v","e","r",".","p","n","g" >>,
    << "r","e","a","d","m","e",".","t","x","t" >> }

\* The values --prefix can be given on the command line.
PrefixChoices ==
  { << "f","r","a","m","e","-" >>, << "c","l","i","p","." >> }

\* The values --pad can be given on the command line.
PadChoices == { 1 }

\* (--fps, --crf, --preset) as given on the command line: the defaults.
\* They are copied into the command and read nowhere else.
EncodeChoices == { [fps |-> 30, crf |-> 18, preset |-> "medium"] }

\* Exit codes of the encoder process.
ReturnCodes == { 0, 1, 2 }

\* What is at the output path: nothing, a zero-length file, a file with data.
OutStates == { "absent", "empty", "nonempty" }

\* What is at the output path when the run starts: nothing, or the video of
\* an earlier run.
InitialOutStates == { "absent", "nonempty" }

\* str(Path(args.indir)) for the default --indir.
IndirStr == << "f","r","a","m","e","s","_","p","n","g" >>

\* Python's None, and a value that is present.
None == << >>

Some(x) == << x >>

VARIABLES
  pc,            \* position in main()
  args,          \* the parsed command line
  indirIsDir,    \* indir.is_dir()
  entries,       \* names of indir.iterdir()
  ffmpegOnPath,  \* shutil.which("ffmpeg") is not None
  outFile,       \* state of out_path on the file system
  pngs, prefix, pad, nums, gaps, cmd,   \* locals of main()
  stdout,        \* the lines printed, by their tag
  stderr,        \* the message the interpreter prints when the run dies
  exitCode,      \* exit status of the process, None while it runs
  returncode,    \* the encoder's exit status, None before it ran
  execCount,     \* number of times the encoder was started
  inferCalls,    \* number of calls of infer_padding_and_prefix
  steps          \* the steps of main() performed so far

vars == << pc, args, indirIsDir, entries, ffmpegOnPath, outFile,
           pngs, prefix, pad, nums, gaps, cmd,
           stdout, stderr, exitCode, returncode, execCount, inferCalls, steps >>

\* ---------------------------------------------------------- pure helpers
\* int(s) for a run of decimal digits.
RECURSIVE IntOf(_)
IntOf(s) ==
  IF s = << >> THEN 0
  ELSE 10 * IntOf(SubSeq(s, 1, Len(s) - 1)) + DigitVal(s[Len(s)])

\* str(n) for an int.
RECURSIVE StrOfNat(_)
StrOfNat(n) ==
  IF n < 10 THEN << Alphabet[Ord("0") + n] >>
  ELSE StrOfNat(n \div 10) \o << Alphabet[Ord("0") + (n % 10)] >>

StrOf(n) == IF n < 0 THEN << "-" >> \o StrOfNat(0 - n) ELSE StrOfNat(n)

\* PurePath.suffix: the text from the last dot on, unless that dot is the
\* first or the last character of the name.
Suffix(name) ==
  LET dots == { i \in 1..Len(name) : name[i] = "." }
      last == CHOOSE i \in dots : \A j \in dots : j <= i
  IN  IF dots # {} /\ last > 1 /\ last < Len(name)
        THEN SubSeq(name, last, Len(name))
        ELSE << >>

\* str.__lt__ on two names: lexicographic by code point.
RECURSIVE NameLess(_, _)
NameLess(a, b) ==
  IF b = << >> THEN FALSE
  ELSE IF a = << >> THEN TRUE
  ELSE IF Head(a) = Head(b) THEN NameLess(Tail(a), Tail(b))
  ELSE Ord(Head(a)) < Ord(Head(b))

\* sorted() of the paths of one directory: ascending by name.
RECURSIVE SortNames(_)
SortNames(S) ==
  IF S = {} THEN << >>
  ELSE LET m == CHOOSE x \in S : \A y \in S \ {x} : NameLess(x, y)
       IN  << m >> \o SortNames(S \ {m})

\* Variant: any entry with a suffix is collected, whatever the suffix.
PngEntries_AnySuffix(S) == { f \in S : Suffix(f) # << >> }

\* [f for f in indir.iterdir() if f.suffix.lower() == ".png"]
PngEntries(S) == { f \in S : LowerStr(Suffix(f)) = DotPng }

\* Does name, after its first k characters, read (\d+)\.png$ ?
DigitsThenPng(name, k) ==
  /\ Len(name) >= k + 1 + Len(DotPng)
  /\ LowerStr(SubSeq(name, Len(name) - Len(DotPng) + 1, Len(name))) = DotPng
  /\ AllDigits(SubSeq(name, k + 1, Len(name) - Len(DotPng)))

\* Variant: the group is greedy, (.*) for (.*?), and takes the most
\* characters that let the rest match.
RECURSIVE GreedyPrefixLen(_, _)
GreedyPrefixLen(name, k) ==
  IF k > Len(name) THEN -1
  ELSE LET later == GreedyPrefixLen(name, k + 1)
       IN  IF later >= 0 THEN later
           ELSE IF DigitsThenPng(name, k) THEN k
           ELSE -1

\* r.match(name) for r = ^(.*?)(\d+)\.png$ : the non-greedy group takes the
\* fewest characters that let the rest match.  The length of group 1, or -1.
RECURSIVE LazyPrefixLen(_, _)
LazyPrefixLen(name, k) ==
  IF k > Len(name) THEN -1
  ELSE IF DigitsThenPng(name, k) THEN k
  ELSE LazyPrefixLen(name, k + 1)

\* Variant: the loop does not return at the first match, so that the last
\* match decides.
RECURSIVE InferLoop_LastMatch(_)
InferLoop_LastMatch(files) ==
  IF files = << >> THEN [ok |-> FALSE, prefix |-> << >>, pad |-> 0]
  ELSE LET f == files[Len(files)]
           k == LazyPrefixLen(f, 0)
       IN  IF k >= 0
             THEN [ok |-> TRUE, prefix |-> SubSeq(f, 1, k),
                   pad |-> Len(f) - Len(DotPng) - k]
             ELSE InferLoop_LastMatch(SubSeq(files, 1, Len(files) - 1))

\* Variant: the width is taken from the frame number, len(str(int(...))),
\* not from the digits as written.
RECURSIVE InferLoop_PadOfValue(_)
InferLoop_PadOfValue(files) ==
  IF files = << >> THEN [ok |-> FALSE, prefix |-> << >>, pad |-> 0]
  ELSE LET f == Head(files)
           k == LazyPrefixLen(f, 0)
       IN  IF k >= 0
             THEN [ok |-> TRUE, prefix |-> SubSeq(f, 1, k),
                   pad |-> Len(StrOf(IntOf(
                              SubSeq(f, k + 1, Len(f) - Len(DotPng)))))]
             ELSE InferLoop_PadOfValue(Tail(files))

\* The loop of infer_padding_and_prefix over an already sorted list.
RECURSIVE InferLoop(_)
InferLoop(files) ==
  IF files = << >> THEN [ok |-> FALSE, prefix |-> << >>, pad |-> 0]
  ELSE LET f == Head(files)
           k == LazyPrefixLen(f, 0)
       IN  IF k >= 0
             THEN [ok |-> TRUE, prefix |-> SubSeq(f, 1, k),
                   pad |-> Len(f) - Len(DotPng) - k]
             ELSE InferLoop(Tail(files))

\* infer_padding_and_prefix(files); ok = FALSE stands for the RuntimeError.
infer_padding_and_prefix(files) ==
  InferLoop(SortNames({ files[i] : i \in 1..Len(files) }))

\* re.escape(prefix): every character stands for itself in the pattern.
ReEscape(s) == [i \in 1..Len(s) |-> [any |-> FALSE, ch |-> s[i]]]

\* One pattern item against one character under re.IGNORECASE.
ItemMatches(item, c) == item.any \/ Lower(item.ch) = Lower(c)

\* num_re.match(name) for num_re = ^<pat>(\d+)\.png$ with pat a sequence of
\* items of fixed width one.
NumReMatches(pat, name) ==
  /\ Len(name) >= Len(pat)
  /\ \A i \in 1..Len(pat) : ItemMatches(pat[i], name[i])
  /\ DigitsThenPng(name, Len(pat))

\* list.sort() on ints: insertion into an ascending list.
RECURSIVE InsertInt(_, _)
InsertInt(x, s) ==
  IF s = << >> THEN << x >>
  ELSE IF x <= Head(s) THEN << x >> \o s
  ELSE << Head(s) >> \o InsertInt(x, Tail(s))

RECURSIVE SortInts(_)
SortInts(s) ==
  IF s = << >> THEN << >> ELSE InsertInt(Head(s), SortInts(Tail(s)))

\* The loop collecting int(m.group(1)) of the names num_re matches.
RECURSIVE ExtractNums(_, _)
ExtractNums(pat, files) ==
  IF files = << >> THEN << >>
  ELSE LET f == Head(files)
           rest == ExtractNums(pat, Tail(files))
       IN  IF NumReMatches(pat, f)
             THEN << IntOf(SubSeq(f, Len(pat) + 1, Len(f) - Len(DotPng))) >>
                    \o rest
             ELSE rest

\* [b for a,b in zip(nums, nums[1:]) if b != a+1]
GapsOf(ns) ==
  LET idx == { i \in 1..(Len(ns) - 1) : ns[i + 1] # ns[i] + 1 }
      RECURSIVE Pick(_)
      Pick(i) == IF i >= Len(ns) THEN << >>
                 ELSE IF i \in idx THEN << ns[i + 1] >> \o Pick(i + 1)
                 ELSE Pick(i + 1)
  IN  Pick(1)

\* f"{prefix}%0{pad}d.png"
PatternOf(pfx, pd) ==
  pfx \o << "%", "0" >> \o StrOf(pd) \o << "d" >> \o DotPng

\* str(indir / pattern)
InputPattern(pfx, pd) == IndirStr \o << "/" >> \o PatternOf(pfx, pd)

\* The argument list handed to subprocess.run.
CmdOf(a, pfx, pd) ==
  << "ffmpeg", "-y",
     "-framerate", StrOf(a.fps),
     "-i", InputPattern(pfx, pd),
     "-c:v", "libx264",
     "-preset", a.preset,
     "-crf", StrOf(a.crf),
     "-pix_fmt", "yuv420p",
     "dropfilm.mp4" >>

\* ------------------------------------------------------------ messages
NoMessage == [tag |-> "", text |-> "", code |-> None]

\* What SystemExit(text) makes the interpreter print: the text itself.
ErrorMessage(text) == [tag |-> "[ERROR]", text |-> text, code |-> None]

MsgNotFound == ErrorMessage("Input folder not found")

MsgNoPng == ErrorMessage("No PNG files found")

MsgNoFfmpeg == ErrorMessage("ffmpeg not found")

MsgEncode(rc) ==
  [tag |-> "[ERROR]", text |-> "ffmpeg failed with code", code |-> Some(rc)]

MsgNoOutput == ErrorMessage("Output MP4 not created or empty.")

\* What the uncaught RuntimeError of infer_padding_and_prefix makes the
\* interpreter print: a traceback ending in "RuntimeError: <text>".
MsgInfer ==
  [tag |-> "RuntimeError:",
   text |-> "Cannot infer prefix/padding from filenames", code |-> None]

\* --------------------------------------------------------------- the run
Directories == { S \in SUBSET NameUniverse : Cardinality(S) <= MaxFiles }

Init ==
  /\ pc = "start"
  /\ \E p \in {None} \cup { Some(x) : x \in PrefixChoices },
        d \in {None} \cup { Some(x) : x \in PadChoices },
        e \in EncodeChoices :
       args = [prefix |-> p, pad |-> d,
               fps |-> e.fps, crf |-> e.crf, preset |-> e.preset]
  /\ indirIsDir \in BOOLEAN
  /\ entries \in Directories
  /\ ~indirIsDir => entries = {}
  /\ ffmpegOnPath \in BOOLEAN
  /\ outFile \in InitialOutStates
  /\ pngs = << >>
  /\ prefix = << >>
  /\ pad = 0
  /\ nums = << >>
  /\ gaps = << >>
  /\ cmd = << >>
  /\ stdout = << >>
  /\ stderr = NoMessage
  /\ exitCode = None
  /\ returncode = None
  /\ execCount = 0
  /\ inferCalls = 0
  /\ steps = << >>

\* The run ends with msg on stderr and exit status 1 (SystemExit with a
\* string, or an uncaught exception).
Die(msg) ==
  /\ pc' = "done"
  /\ stderr' = msg
  /\ exitCode' = Some(1)

Step(name) == steps' = Append(steps, name)

\* if not indir.is_dir(): raise SystemExit(...)
CheckIndir ==
  /\ pc = "start"
  /\ Step("is_dir")
  /\ IF ~indirIsDir
       THEN Die(MsgNotFound)
       ELSE pc' = "collect" /\ UNCHANGED << stderr, exitCode >>
  /\ UNCHANGED << args, indirIsDir, entries, ffmpegOnPath, outFile, pngs,
                  prefix, pad, nums, gaps, cmd, stdout, returncode,
                  execCount, inferCalls >>

\* Variant: the encoder is looked for before the list is tested.
CollectPngs_ToolFirst ==
  /\ pc = "collect"
  /\ Step("iterdir")
  /\ pngs' = SortNames(PngEntries(entries))
  /\ IF ~ffmpegOnPath
       THEN Die(MsgNoFfmpeg)
       ELSE IF pngs' = << >>
         THEN Die(MsgNoPng)
         ELSE pc' = "which" /\ UNCHANGED << stderr, exitCode >>
  /\ UNCHANGED << args, indirIsDir, entries, ffmpegOnPath, outFile,
                  prefix, pad, nums, gaps, cmd, stdout, returncode,
                  execCount, inferCalls >>

\* pngs = sorted([...]); if not pngs: raise SystemExit(...)
CollectPngs ==
  /\ pc = "collect"
  /\ Step("iterdir")
  /\ pngs' = SortNames(PngEntries(entries))
  /\ IF pngs' = << >>
       THEN Die(MsgNoPng)
       ELSE pc' = "which" /\ UNCHANGED << stderr, exitCode >>
  /\ UNCHANGED << args, indirIsDir, entries, ffmpegOnPath, outFile,
                  prefix, pad, nums, gaps, cmd, stdout, returncode,
                  execCount, inferCalls >>

\* if shutil.which("ffmpeg") is None: raise SystemExit(...)
CheckFfmpeg ==
  /\ pc = "which"
  /\ Step("which")
  /\ IF ~ffmpegOnPath
       THEN Die(MsgNoFfmpeg)
       ELSE pc' = "resolve" /\ UNCHANGED << stderr, exitCode >>
  /\ UNCHANGED << args, indirIsDir, entries, ffmpegOnPath, outFile, pngs,
                  prefix, pad, nums, gaps, cmd, stdout, returncode,
                  execCount, inferCalls >>

\* if args.prefix is None or args.pad is None
NeedsInference(a) == a.prefix = None \/ a.pad = None

\* Variant: inference always runs and its result is always used.
ResolveScheme_AlwaysInfer ==
  /\ pc = "resolve"
  /\ Step("resolve")
  /\ LET r == infer_padding_and_prefix(pngs)
     IN  /\ inferCalls' = inferCalls + 1
         /\ IF r.ok
              THEN /\ prefix' = r.prefix
                   /\ pad' = r.pad
                   /\ pc' = "sequence"
                   /\ UNCHANGED << stderr, exitCode >>
              ELSE /\ Die(MsgInfer)
                   /\ UNCHANGED << prefix, pad >>
  /\ UNCHANGED << args, indirIsDir, entries, ffmpegOnPath, outFile, pngs,
                  nums, gaps, cmd, stdout, returncode, execCount >>

\* prefix, pad = infer_padding_and_prefix(pngs)  or  args.prefix, args.pad
ResolveScheme ==
  /\ pc = "resolve"
  /\ Step("resolve")
  /\ IF NeedsInference(args)
       THEN LET r == infer_padding_and_prefix(pngs)
            IN  /\ inferCalls' = inferCalls + 1
                /\ IF r.ok
                     THEN /\ prefix' = r.prefix
                          /\ pad' = r.pad
                          /\ pc' = "sequence"
                          /\ UNCHANGED << stderr, exitCode >>
                     ELSE /\ Die(MsgInfer)
                          /\ UNCHANGED << prefix, pad >>
       ELSE /\ prefix' = args.prefix[1]
            /\ pad' = args.pad[1]
            /\ pc' = "sequence"
            /\ UNCHANGED << stderr, exitCode, inferCalls >>
  /\ UNCHANGED << args, indirIsDir, entries, ffmpegOnPath, outFile, pngs,
                  nums, gaps, cmd, stdout, returncode, execCount >>

\* nums of the names num_re matches, sorted.
SequenceOf(pfx, files) == SortInts(ExtractNums(ReEscape(pfx), files))

\* Variant: only a jump forward counts, b > a+1 for b != a+1.
DetectGaps_ForwardOnly(ns) ==
  LET RECURSIVE Pick(_)
      Pick(i) == IF i >= Len(ns) THEN << >>
                 ELSE IF ns[i + 1] > ns[i] + 1 THEN << ns[i + 1] >> \o Pick(i + 1)
                 ELSE Pick(i + 1)
  IN  IF Len(ns) >= 2 THEN Pick(1) ELSE << >>

\* The gaps the code looks for: if len(nums) >= 2: gaps = [...]
DetectGaps(ns) == IF Len(ns) >= 2 THEN GapsOf(ns) ELSE << >>

\* The loop over pngs, nums.sort(), the gap test and its warning.
ExtractSequence ==
  /\ pc = "sequence"
  /\ Step("sequence")
  /\ nums' = SequenceOf(prefix, pngs)
  /\ gaps' = DetectGaps(nums')
  /\ stdout' = IF gaps' # << >> THEN Append(stdout, "[WARN]") ELSE stdout
  /\ pc' = "build"
  /\ UNCHANGED << args, indirIsDir, entries, ffmpegOnPath, outFile, pngs,
                  prefix, pad, cmd, stderr, exitCode, returncode,
                  execCount, inferCalls >>

\* pattern, input_pattern, cmd and print("[INFO] Running:", ...)
BuildCmd ==
  /\ pc = "build"
  /\ Step("build")
  /\ cmd' = CmdOf(args, prefix, pad)
  /\ stdout' = Append(stdout, "[INFO]")
  /\ pc' = "run"
  /\ UNCHANGED << args, indirIsDir, entries, ffmpegOnPath, outFile, pngs,
                  prefix, pad, nums, gaps, stderr, exitCode, returncode,
                  execCount, inferCalls >>

\* Variant: check=True is missing, so no exit status raises.
RunFfmpeg_Unchecked ==
  /\ pc = "run"
  /\ Step("run")
  /\ execCount' = execCount + 1
  /\ \E rc \in ReturnCodes, o \in OutStates :
       /\ returncode' = Some(rc)
       /\ outFile' = o
       /\ pc' = "verify"
  /\ UNCHANGED << args, indirIsDir, entries, ffmpegOnPath, pngs, stderr,
                  exitCode, prefix, pad, nums, gaps, cmd, stdout, inferCalls >>

\* subprocess.run(cmd, check=True): the encoder runs to its end, leaves the
\* output path in some state and returns some exit status; a non-zero one
\* raises CalledProcessError, which becomes SystemExit.
RunFfmpeg ==
  /\ pc = "run"
  /\ Step("run")
  /\ execCount' = execCount + 1
  /\ \E rc \in ReturnCodes, o \in OutStates :
       /\ returncode' = Some(rc)
       /\ outFile' = o
       /\ IF rc # 0
            THEN Die(MsgEncode(rc))
            ELSE pc' = "verify" /\ UNCHANGED << stderr, exitCode >>
  /\ UNCHANGED << args, indirIsDir, entries, ffmpegOnPath, pngs,
                  prefix, pad, nums, gaps, cmd, stdout, inferCalls >>

\* Variant: only out_path.exists() is tested.
OutputOk_ExistsOnly(o) == o # "absent"

\* out_path.exists() and out_path.stat().st_size > 0
OutputOk(o) == o = "nonempty"

\* The final test: print "[OK] ..." and return, or raise SystemExit.
VerifyOutput ==
  /\ pc = "verify"
  /\ Step("verify")
  /\ IF OutputOk(outFile)
       THEN /\ stdout' = Append(stdout, "[OK]")
            /\ pc' = "done"
            /\ exitCode' = Some(0)
            /\ UNCHANGED stderr
       ELSE /\ Die(MsgNoOutput)
            /\ UNCHANGED stdout
  /\ UNCHANGED << args, indirIsDir, entries, ffmpegOnPath, outFile, pngs,
                  prefix, pad, nums, gaps, cmd, returncode, execCount,
                  inferCalls >>

Next ==
  \/ CheckIndir
  \/ CollectPngs
  \/ CheckFfmpeg
  \/ ResolveScheme
  \/ ExtractSequence
  \/ BuildCmd
  \/ RunFfmpeg
  \/ VerifyOutput

Spec == Init /\ [][Next]_vars

\* ------------------------------------------------- vocabulary of claims
Done == pc = "done"

Printed(tag) == \E i \in 1..Len(stdout) : stdout[i] = tag

Performed(name) == \E i \in 1..Len(steps) : steps[i] = name

StepOrder ==
  << "is_dir", "iterdir", "which", "resolve", "sequence", "build", "run",
     "verify" >>

\* A name ending in .png in any letter case, with something before it.
HasPngExtension(f) ==
  /\ Len(f) > Len(DotPng)
  /\ LowerStr(SubSeq(f, Len(f) - Len(DotPng) + 1, Len(f))) = DotPng

\* The ways of reading f as (prefix)(digits)(.png): pairs of the length of
\* the prefix and the number of digits.
ReadingsOf(f) ==
  { r \in (0..Len(f)) \X (1..Len(f)) :
      /\ r[1] + r[2] + Len(DotPng) = Len(f)
      /\ HasPngExtension(f)
      /\ \A i \in (r[1] + 1)..(r[1] + r[2]) : IsDigit(f[i]) }

\* Both, tabulated over the names that occur.
IsPng == [f \in NameUniverse |-> HasPngExtension(f)]

Readings == [f \in NameUniverse |-> ReadingsOf(f)]

LowerName == [f \in NameUniverse |-> LowerStr(f)]

\* The PNG entries that can be read that way, and the first of them by name.
Numbered == { f \in entries : IsPng[f] /\ Readings[f] # {} }

\* The number of names that come before f in order of name.
Rank ==
  [f \in NameUniverse |-> Cardinality({ g \in NameUniverse : NameLess(g, f) })]

FirstNumbered == CHOOSE f \in Numbered : \A g \in Numbered : Rank[f] <= Rank[g]

\* The PNG entries that read (pfx, in any letter case)(digits)(.png).
MatchedBy(pfx) ==
  { f \in entries :
      /\ IsPng[f]
      /\ << Len(pfx), Len(f) - Len(DotPng) - Len(pfx) >> \in Readings[f]
      /\ SubSeq(LowerName[f], 1, Len(pfx)) = LowerStr(pfx) }

\* The frame number of a file matched by a prefix of length n.
FrameNumber(f, n) == IntOf(SubSeq(f, n + 1, Len(f) - Len(DotPng)))

NoPng == \A f \in entries : ~IsPng[f]

\* The scheme has been resolved (the run is past line 79).
Resolved == Performed("resolve") /\ stderr # MsgInfer

ClipPrefix == << "c","l","i","p","_" >>

ClipPattern ==
  << "c","l","i","p","_","%","0","3","d",".","p","n","g" >>

\* ------------------------------------------------------------------- C1
\* C1: every run that ends in failure exits non-zero with a message that
\* carries the [ERROR] prefix and without the success line, the failure of
\* infer_padding_and_prefix included.
C1_EveryFailurePrefixed ==
  (Done /\ ~Printed("[OK]")) =>
     /\ exitCode # None /\ exitCode # Some(0)
     /\ stderr.tag = "[ERROR]"
     /\ stderr.text # ""

\* ------------------------------------------------------------------- C2
\* C2: the steps are performed in the one fixed order, the first failing
\* step ends the run and is the one reported, and the encoder is started
\* only after the directory check, the non-empty check, the tool check and
\* the scheme resolution have all succeeded.
C2_FixedOrder ==
  /\ Len(steps) <= Len(StepOrder)
  /\ \A i \in 1..Len(steps) : steps[i] = StepOrder[i]
  /\ execCount > 0 =>
       /\ indirIsDir
       /\ ~NoPng
       /\ ffmpegOnPath
       /\ (args.prefix = None \/ args.pad = None) => Numbered # {}
  /\ Done =>
       IF ~indirIsDir
         THEN stderr = MsgNotFound /\ steps = SubSeq(StepOrder, 1, 1)
       ELSE IF NoPng
         THEN stderr = MsgNoPng /\ steps = SubSeq(StepOrder, 1, 2)
       ELSE IF ~ffmpegOnPath
         THEN stderr = MsgNoFfmpeg /\ steps = SubSeq(StepOrder, 1, 3)
       ELSE IF (args.prefix = None \/ args.pad = None) /\ Numbered = {}
         THEN stderr = MsgInfer /\ steps = SubSeq(StepOrder, 1, 4)
       ELSE IF returncode # Some(0)
         THEN /\ returncode # None
              /\ stderr = MsgEncode(returncode[1])
              /\ steps = SubSeq(StepOrder, 1, 7)
       ELSE /\ steps = StepOrder
            /\ stderr \in { NoMessage, MsgNoOutput }

\* An empty directory with the encoder missing: the empty-input error.
C2_Witness ==
  /\ Done /\ indirIsDir /\ ~ffmpegOnPath
  /\ NoPng
  /\ stderr = MsgNoPng

\* ------------------------------------------------------------------- C3
\* C3: when the directory exists and none of its entries has the extension
\* .png in any letter case, neither the encoder nor the inference is ever
\* reached, and the run ends with the empty-input error, whatever the
\* options.
C3_EmptyInput ==
  (indirIsDir /\ NoPng) =>
     /\ execCount = 0
     /\ inferCalls = 0
     /\ ~Performed("which")
     /\ Done => stderr = MsgNoPng /\ exitCode = Some(1) /\ ~Printed("[OK]")

\* A directory that holds only a file that is no PNG, with the encoder
\* installed and a scheme given explicitly.
C3_Witness ==
  /\ Done /\ indirIsDir /\ entries # {} /\ ffmpegOnPath
  /\ args.prefix # None /\ args.pad # None
  /\ NoPng
  /\ stderr = MsgNoPng

\* ------------------------------------------------------------------- C4
\* C4: the encoder is started at most once; when it exits non-zero the run
\* is over with the encode error carrying that exit status and a non-zero
\* exit, the output is never verified and the success line never printed,
\* whatever is at the output path.
C4_EncodeFailure ==
  /\ execCount <= 1
  /\ (execCount = 1) = (returncode # None)
  /\ (returncode # None /\ returncode # Some(0)) =>
       /\ Done
       /\ stderr = MsgEncode(returncode[1])
       /\ exitCode # None /\ exitCode # Some(0)
       /\ ~Performed("verify")
       /\ ~Printed("[OK]")

\* The encoder failed with status 2 although it left a file with data.
C4_Witness ==
  /\ Done /\ returncode = Some(2) /\ outFile = "nonempty"
  /\ stderr = MsgEncode(2)

\* ------------------------------------------------------------------- C5
\* C5: a finished run has printed the success line and exited zero exactly
\* when the encoder ran, exited zero and left a non-empty file at the
\* output path; the success line goes with exit status zero only; an
\* encoder that exits zero leaving no file or an empty one ends the run
\* non-zero with the output-verification error.
C5_SuccessIff ==
  /\ Printed("[OK]") = (exitCode = Some(0))
  /\ Done =>
       (Printed("[OK]") /\ exitCode = Some(0))
         = (execCount = 1 /\ returncode = Some(0) /\ outFile = "nonempty")
  /\ (Done /\ returncode = Some(0) /\ outFile # "nonempty") =>
       /\ exitCode = Some(1)
       /\ stderr = MsgNoOutput

\* The encoder exited zero and left an empty file.
C5_Witness ==
  /\ Done /\ returncode = Some(0) /\ outFile = "empty"
  /\ stderr = MsgNoOutput /\ exitCode = Some(1)

\* ------------------------------------------------------------------- C6
\* C6: once inference has run, its result is a reading (prefix)(digits)
\* (.png) of the first entry, in order of name, that has such a reading,
\* however the later entries are named; and it has failed with the
\* inference error exactly when no entry has such a reading.
C6_FirstMatch ==
  inferCalls = 1 =>
    IF Numbered = {}
      THEN Done /\ stderr = MsgInfer /\ exitCode = Some(1)
      ELSE /\ stderr # MsgInfer
           /\ pc \in { "sequence", "build", "run", "verify", "done" }
           /\ << Len(prefix), pad >> \in Readings[FirstNumbered]
           /\ prefix = SubSeq(FirstNumbered, 1, Len(prefix))

\* The first PNG by name has no digits and a later one decides; the last
\* entry is numbered under another scheme.
C6_Witness ==
  /\ inferCalls = 1 /\ pc = "sequence" /\ Len(pngs) >= 3
  /\ Readings[pngs[1]] = {}
  /\ Readings[pngs[Len(pngs)]] # {}
  /\ << Len(prefix), pad >> \notin Readings[pngs[Len(pngs)]]

\* ------------------------------------------------------------------- C7
\* C7 as claimed: whatever way the first numbered file reads as a prefix
\* followed by zero-padded digits, inference returns that prefix and that
\* width, a prefix ending in a digit included.
C7_AnyPrefix ==
  (inferCalls = 1 /\ Resolved) =>
     \A r \in Readings[FirstNumbered] :
        prefix = SubSeq(FirstNumbered, 1, r[1]) /\ pad = r[2]

\* The number of decimal digits a name has just before position n + 1.
RECURSIVE DigitsBefore(_, _)
DigitsBefore(f, n) ==
  IF n >= 1 /\ IsDigit(f[n]) THEN 1 + DigitsBefore(f, n - 1) ELSE 0

\* C7 as amended: when the first numbered file reads as a prefix that does
\* not end in a decimal digit followed by digits, inference returns that
\* prefix and that width; when the prefix ends in digits, they count as
\* part of the number: the prefix comes back without them and the width
\* larger by their count.  For clip_003.png, ... this gives clip_, 3 and
\* the pattern clip_%03d.png, which is what the encoder is handed.
C7_PrefixWithoutTrailingDigit ==
  /\ (inferCalls = 1 /\ Resolved) =>
       \A r \in Readings[FirstNumbered] :
          LET t == DigitsBefore(FirstNumbered, r[1])
          IN  /\ prefix = SubSeq(FirstNumbered, 1, r[1] - t)
              /\ pad = r[2] + t
  /\ (inferCalls = 1 /\ Resolved
        /\ SubSeq(FirstNumbered, 1, Len(ClipPrefix) + 2)
             = ClipPrefix \o << "0", "0" >>
        /\ Len(FirstNumbered) = Len(ClipPrefix) + 3 + Len(DotPng)) =>
       /\ prefix = ClipPrefix
       /\ pad = 3
       /\ Performed("build") => cmd[6] = IndirStr \o << "/" >> \o ClipPattern

\* A directory of clip_00N.png files alone, the command built.
C7_Witness ==
  /\ inferCalls = 1 /\ pc = "run" /\ Len(pngs) >= 2
  /\ \A i \in 1..Len(pngs) :
        SubSeq(pngs[i], 1, Len(ClipPrefix)) = ClipPrefix
  /\ prefix = ClipPrefix /\ pad = 3
  /\ cmd[6] = IndirStr \o << "/" >> \o ClipPattern

\* ------------------------------------------------------------------- C8
\* C8: once the sequence is extracted, nums holds in ascending order the
\* frame numbers of exactly the entries that read (prefix)(digits)(.png),
\* each as often as it occurs; the warning is printed exactly when there
\* are at least two numbers and two neighbours do not differ by 1, and
\* gaps has one element for each such pair; nothing else is printed for
\* the entries left out, the run does not end there, and every run that
\* got this far is one that starts the encoder.
C8_GapWarning ==
  Performed("sequence") =>
    LET matched == MatchedBy(prefix)
        breaks == { i \in 1..(Len(nums) - 1) : nums[i + 1] - nums[i] # 1 }
    IN  /\ Len(nums) = Cardinality(matched)
        /\ \A i \in 1..(Len(nums) - 1) : nums[i] <= nums[i + 1]
        /\ \A i \in 1..Len(nums) :
              Cardinality({ j \in 1..Len(nums) : nums[j] = nums[i] })
                = Cardinality({ f \in matched :
                                  FrameNumber(f, Len(prefix)) = nums[i] })
        /\ Printed("[WARN]") = (Len(nums) >= 2 /\ breaks # {})
        /\ Len(gaps) = Cardinality(breaks)
        /\ \A i \in 1..Len(gaps) : \E j \in breaks : gaps[i] = nums[j + 1]
        /\ nums = << 3, 4, 5, 7, 8 >> => gaps = << 7 >>
        /\ nums = << 3, 4, 5 >> => gaps = << >>
        /\ Cardinality({ i \in 1..Len(stdout) : stdout[i] = "[WARN]" }) <= 1
        /\ \A i \in 1..Len(stdout) : stdout[i] \in { "[WARN]", "[INFO]", "[OK]" }
        /\ pc \in { "build", "run" } => stderr = NoMessage /\ exitCode = None
        /\ pc = "build" => ENABLED BuildCmd
        /\ pc = "run" => ENABLED RunFfmpeg
        /\ pc \in { "verify", "done" } => execCount = 1

\* Files numbered 3, 4, 5, 7, 8: one gap, the warning, and the encoder has
\* run.
C8_Witness ==
  /\ nums = << 3, 4, 5, 7, 8 >> /\ gaps = << 7 >> /\ Printed("[WARN]")
  /\ execCount = 1 /\ returncode = Some(0)

\* ------------------------------------------------------------------- C9
\* C9 as claimed: when the pattern is built, the width is at least the
\* number of digits of the largest frame number, and the prefix is letter
\* for letter what precedes the digits in every matched name.
C9_SchemeInvariant ==
  Performed("build") =>
    /\ nums # << >> => pad >= Len(StrOf(nums[Len(nums)]))
    /\ \A f \in MatchedBy(prefix) : SubSeq(f, 1, Len(prefix)) = prefix

\* The first entry, in order of name, among the matched ones.
FirstMatched ==
  LET m == MatchedBy(prefix)
  IN  CHOOSE f \in m : \A g \in m : Rank[f] <= Rank[g]

\* C9 as amended: when the pattern is built, the prefix is, up to letter
\* case, what precedes the digits in every matched name.  An inferred
\* scheme has at least one matched name; its width is the number of digits
\* in the first matched name in order of name (so at least the number of
\* digits of that file's frame number) and its prefix is letter for letter
\* what precedes them there.  An explicit scheme is the operator's two
\* values as given.
C9_SchemeAsResolved ==
  Performed("build") =>
    /\ \A f \in MatchedBy(prefix) :
          /\ SubSeq(LowerName[f], 1, Len(prefix)) = LowerStr(prefix)
          /\ Len(f) - Len(DotPng) - Len(prefix) >= 1
    /\ inferCalls = 1 =>
          /\ MatchedBy(prefix) # {}
          /\ pad = Len(FirstMatched) - Len(DotPng) - Len(prefix)
          /\ pad >= Len(StrOf(FrameNumber(FirstMatched, Len(prefix))))
          /\ prefix = SubSeq(FirstMatched, 1, Len(prefix))
    /\ inferCalls = 0 =>
          /\ args.prefix = Some(prefix)
          /\ args.pad = Some(pad)

\* An inferred width of 1 with frame number 10 among the matched files,
\* one of which is spelled with another letter case.
C9_Witness ==
  /\ pc = "run" /\ inferCalls = 1
  /\ nums # << >> /\ pad < Len(StrOf(nums[Len(nums)]))
  /\ \E f \in MatchedBy(prefix) : SubSeq(f, 1, Len(prefix)) # prefix

====
